---- MODULE Spec2Model ----
(***************************************************************************)
(* State-machine model of the UEFI boot stage in src/bin/uefi.rs:          *)
(* the UefiFrameAllocator (allocate_frame, construct_memory_map), the      *)
(* TwoFrames reserved-pair allocator, and the efi_main boot sequence.      *)
(*                                                                         *)
(* A PhysFrame is represented by its start address in bytes, a multiple    *)
(* of PAGE_SIZE; `frame + n` is `addr + n * PAGE_SIZE`.  Option::None of a *)
(* frame is NoFrame.  A position in the descriptor sequence is a 1-based   *)
(* index; 0 stands for `current_descriptor == None`.                       *)
(***************************************************************************)
EXTENDS Integers, Sequences, FiniteSets, TLC

VARIABLES
    frame_allocator,  \* UefiFrameAllocator {original, memory_map, current_descriptor, next_frame}
    two_frames,       \* TwoFrames.frames: <<>> before TwoFrames::new, then the two slots
    results,          \* history: result of every UefiFrameAllocator::allocate_frame call, in call order
    tf_drawn,         \* history: indices into results of the calls made by TwoFrames::new
    tf_results,       \* history: result of every TwoFrames::allocate_frame call, in call order
    regions,          \* the regions added to the MemoryMapBuilder by construct_memory_map
    phase,            \* "allocating", "finalized" (allocator consumed), "panicked"
    pc,               \* position in efi_main / context_switch ("idle" in the allocator harnesses)
    page_table,       \* the new OffsetPageTable: [tables, mappings]
    framebuffer,      \* (framebuffer_addr, framebuffer_size) returned by init_logger
    level_4_frame,    \* frame of the new level 4 table
    boot_info_frame,  \* frame that receives BootInfo
    memory_map_frame, \* frame that receives the MemoryMap
    loop_i,           \* iterations completed of the loop pc is in
    current_frame,    \* context_switch: frame containing the instruction pointer
    cr3               \* active page table: "uefi" or the frame loaded by the switch

allocvars == <<frame_allocator, two_frames, results, tf_drawn, tf_results, regions, phase>>

bootvars == <<pc, page_table, framebuffer, level_4_frame, boot_info_frame,
              memory_map_frame, loop_i, current_frame, cr3>>

vars == <<allocvars, bootvars>>

----------------------------------------------------------------------------
(* Bounds of the model *)

\* longest enumerated descriptor sequence
MaxDesc == 2
\* largest enumerated descriptor start, in frames
MaxStart == 2
\* largest enumerated descriptor page count
MaxPages == 2
\* most allocate_frame calls on the primary allocator in one run
MaxCalls == 12
\* most absence results explored after exhaustion
MaxAbsent == 2
\* most TwoFrames::allocate_frame calls in one run
MaxTFCalls == 3
\* longest descriptor sequence in the reserved-pair harness
MaxDescTF == 2
\* largest CONVENTIONAL page count of a boot-time memory map
MaxBootPages == 36
\* most pages the kernel-loading collaborator maps
MaxKernelPages == 2

----------------------------------------------------------------------------
(* Program constants and types *)

PAGE_SIZE == 4096

NoFrame == -1

MemoryTypes == {"CONVENTIONAL", "RESERVED", "LOADER_DATA"}

\* UEFI memory descriptors: page-aligned start, at least one page.
Descriptors ==
    [phys_start : {s * PAGE_SIZE : s \in 0..MaxStart},
     page_count : 1..MaxPages,
     ty : MemoryTypes]

\* The three-descriptor memory map of the specification's worked example.
ExampleMemoryMap ==
    << [phys_start |-> 0,              page_count |-> 10, ty |-> "CONVENTIONAL"],
       [phys_start |-> 10 * PAGE_SIZE, page_count |-> 5,  ty |-> "RESERVED"],
       [phys_start |-> 15 * PAGE_SIZE, page_count |-> 20, ty |-> "CONVENTIONAL"] >>

SeqsUpTo(S, n) == UNION {[1..k -> S] : k \in 0..n}

MemoryMaps == SeqsUpTo(Descriptors, MaxDesc) \cup {ExampleMemoryMap}

----------------------------------------------------------------------------
(* x86_64 address helpers used by the allocator *)

AlignUp(addr, align) == ((addr + align - 1) \div align) * align

ContainingAddress(addr) == (addr \div PAGE_SIZE) * PAGE_SIZE

----------------------------------------------------------------------------
(* UefiFrameAllocator *)

New(memory_map) ==
    [original |-> memory_map,
     memory_map |-> 1,
     current_descriptor |-> 0,
     next_frame |-> ContainingAddress(0)]

\* Mutation: the cursor is not advanced after a frame is handed out.
AllocateFrameFromDescriptor_NoAdvance(self, descriptor) ==
    LET start_frame == ContainingAddress(AlignUp(descriptor.phys_start, PAGE_SIZE))
        end_frame == start_frame + descriptor.page_count * PAGE_SIZE
    IN  IF self.next_frame < end_frame
        THEN [ret |-> self.next_frame, self |-> self]
        ELSE [ret |-> NoFrame, self |-> self]

AllocateFrameFromDescriptor(self, descriptor) ==
    LET start_frame == ContainingAddress(AlignUp(descriptor.phys_start, PAGE_SIZE))
        end_frame == start_frame + descriptor.page_count * PAGE_SIZE
    IN  IF self.next_frame < end_frame
        THEN [ret |-> self.next_frame,
              self |-> [self EXCEPT !.next_frame = @ + PAGE_SIZE]]
        ELSE [ret |-> NoFrame, self |-> self]

\* The `while let Some(descriptor) = self.memory_map.next()` loop.
RECURSIVE FindNextDescriptor(_)
FindNextDescriptor(self) ==
    IF self.memory_map > Len(self.original)
    THEN [ret |-> NoFrame, self |-> self]
    ELSE LET i == self.memory_map
             descriptor == self.original[i]
             advanced == [self EXCEPT !.memory_map = i + 1]
         IN  IF descriptor.ty # "CONVENTIONAL"
             THEN FindNextDescriptor(advanced)
             ELSE LET r == AllocateFrameFromDescriptor(advanced, descriptor)
                  IN  IF r.ret # NoFrame
                      THEN [ret |-> r.ret,
                            self |-> [r.self EXCEPT !.current_descriptor = i]]
                      ELSE FindNextDescriptor(r.self)

\* Mutation: a call that finds no frame still moves the cursor on by a frame.
AllocateFrame_BumpOnAbsence(self) ==
    LET r == IF self.current_descriptor # 0
             THEN FindNextDescriptor([self EXCEPT !.current_descriptor = 0])
             ELSE FindNextDescriptor(self)
    IN  IF self.current_descriptor # 0
           /\ AllocateFrameFromDescriptor(
                  self, self.original[self.current_descriptor]).ret # NoFrame
        THEN AllocateFrameFromDescriptor(self, self.original[self.current_descriptor])
        ELSE IF r.ret # NoFrame THEN r
        ELSE [r EXCEPT !.self.next_frame = @ + PAGE_SIZE]

AllocateFrame(self) ==
    IF self.current_descriptor # 0
    THEN LET r == AllocateFrameFromDescriptor(self, self.original[self.current_descriptor])
         IN  IF r.ret # NoFrame
             THEN r
             ELSE FindNextDescriptor([r.self EXCEPT !.current_descriptor = 0])
    ELSE FindNextDescriptor(self)

\* Mutation: the split forgets `descriptor.phys_start = next_free`, so the
\* Usable part starts at the descriptor's start again.
RegionsOfDescriptor_NoStartUpdate(descriptor, next_free, i) ==
    LET end == descriptor.phys_start + PAGE_SIZE * descriptor.page_count
        Region(s, e, k) == [start |-> s, end |-> e, kind |-> k, desc |-> i]
    IN  IF descriptor.ty = "CONVENTIONAL"
        THEN IF end <= next_free
             THEN << Region(descriptor.phys_start, end, "Bootloader") >>
             ELSE IF descriptor.phys_start >= next_free
             THEN << Region(descriptor.phys_start, end, "Usable") >>
             ELSE << Region(descriptor.phys_start, next_free, "Bootloader"),
                     Region(descriptor.phys_start, end, "Usable") >>
        ELSE IF descriptor.ty = "RESERVED"
        THEN << Region(descriptor.phys_start, end, "Reserved") >>
        ELSE << >>

\* Mutation: no split arm; a descriptor that is not fully consumed is Usable.
RegionsOfDescriptor_NoSplit(descriptor, next_free, i) ==
    LET end == descriptor.phys_start + PAGE_SIZE * descriptor.page_count
        Region(s, e, k) == [start |-> s, end |-> e, kind |-> k, desc |-> i]
    IN  IF descriptor.ty = "CONVENTIONAL"
        THEN IF end <= next_free
             THEN << Region(descriptor.phys_start, end, "Bootloader") >>
             ELSE << Region(descriptor.phys_start, end, "Usable") >>
        ELSE IF descriptor.ty = "RESERVED"
        THEN << Region(descriptor.phys_start, end, "Reserved") >>
        ELSE << >>

\* Mutation: the first guard is `end < next_free` instead of `end <= next_free`.
RegionsOfDescriptor_StrictGuard(descriptor, next_free, i) ==
    LET end == descriptor.phys_start + PAGE_SIZE * descriptor.page_count
        Region(s, e, k) == [start |-> s, end |-> e, kind |-> k, desc |-> i]
    IN  IF descriptor.ty = "CONVENTIONAL"
        THEN IF end < next_free
             THEN << Region(descriptor.phys_start, end, "Bootloader") >>
             ELSE IF descriptor.phys_start >= next_free
             THEN << Region(descriptor.phys_start, end, "Usable") >>
             ELSE << Region(descriptor.phys_start, next_free, "Bootloader"),
                     Region(next_free, end, "Usable") >>
        ELSE IF descriptor.ty = "RESERVED"
        THEN << Region(descriptor.phys_start, end, "Reserved") >>
        ELSE << >>

\* The regions one descriptor contributes; `desc` records the position of the
\* descriptor in `original` (history only, not a field of MemoryRegion).
RegionsOfDescriptor(descriptor, next_free, i) ==
    LET end == descriptor.phys_start + PAGE_SIZE * descriptor.page_count
        Region(s, e, k) == [start |-> s, end |-> e, kind |-> k, desc |-> i]
    IN  IF descriptor.ty = "CONVENTIONAL"
        THEN IF end <= next_free
             THEN << Region(descriptor.phys_start, end, "Bootloader") >>
             ELSE IF descriptor.phys_start >= next_free
             THEN << Region(descriptor.phys_start, end, "Usable") >>
             ELSE << Region(descriptor.phys_start, next_free, "Bootloader"),
                     Region(next_free, end, "Usable") >>
        ELSE IF descriptor.ty = "RESERVED"
        THEN << Region(descriptor.phys_start, end, "Reserved") >>
        ELSE << >>

RECURSIVE AddRegionsFrom(_, _, _)
\* Mutation: the regions of a descriptor are added after those of its successors.
AddRegionsFrom_LastFirst(original, next_free, i) ==
    IF i > Len(original)
    THEN << >>
    ELSE AddRegionsFrom(original, next_free, i + 1)
         \o RegionsOfDescriptor(original[i], next_free, i)

AddRegionsFrom(original, next_free, i) ==
    IF i > Len(original)
    THEN << >>
    ELSE RegionsOfDescriptor(original[i], next_free, i)
         \o AddRegionsFrom(original, next_free, i + 1)

ConstructMemoryMap(self) == AddRegionsFrom(self.original, self.next_frame, 1)

----------------------------------------------------------------------------
(* TwoFrames *)

\* TwoFrames::new: two allocate_frame calls, each unwrapped.
TwoFramesNew(allocator) ==
    LET r1 == AllocateFrame(allocator)
        r2 == AllocateFrame(r1.self)
    IN  IF r1.ret = NoFrame
        THEN [ok |-> FALSE, frames |-> << >>, calls |-> << r1.ret >>, allocator |-> r1.self]
        ELSE IF r2.ret = NoFrame
        THEN [ok |-> FALSE, frames |-> << >>, calls |-> << r1.ret, r2.ret >>, allocator |-> r2.self]
        ELSE [ok |-> TRUE, frames |-> << r1.ret, r2.ret >>,
              calls |-> << r1.ret, r2.ret >>, allocator |-> r2.self]

\* Mutation: the slot is read but not taken.
TwoFramesAllocateFrame_NoTake(frames) ==
    IF frames[1] # NoFrame
    THEN [ret |-> frames[1], self |-> frames]
    ELSE IF frames[2] # NoFrame
    THEN [ret |-> frames[2], self |-> frames]
    ELSE [ret |-> NoFrame, self |-> frames]

\* TwoFrames::allocate_frame: frames.iter_mut().find_map(|f| f.take())
TwoFramesAllocateFrame(frames) ==
    IF frames[1] # NoFrame
    THEN [ret |-> frames[1], self |-> [frames EXCEPT ![1] = NoFrame]]
    ELSE IF frames[2] # NoFrame
    THEN [ret |-> frames[2], self |-> [frames EXCEPT ![2] = NoFrame]]
    ELSE [ret |-> NoFrame, self |-> frames]

----------------------------------------------------------------------------
(* The new page table (x86_64 OffsetPageTable with physical offset 0).     *)
(* A page is <<p4, p3, p2, p1>>, its four table indices.  `tables` holds   *)
(* the level 3/2/1 tables that exist, keyed by the index path leading to   *)
(* them and placed in the frame the allocator gave; `mappings` holds the   *)
(* level 1 entries in use.                                                 *)

ENTRY_COUNT == 512

EmptyPageTable == [tables |-> {}, mappings |-> {}]

\* Page::containing_address of the address of a physical frame (identity)
PageOfFrame(frame) ==
    LET n == frame \div PAGE_SIZE
    IN  << 0,
           (n \div (ENTRY_COUNT * ENTRY_COUNT)) % ENTRY_COUNT,
           (n \div ENTRY_COUNT) % ENTRY_COUNT,
           n % ENTRY_COUNT >>

\* FrameAllocator<Size4KiB>::allocate_frame on the allocator handed to the
\* mapper: the UefiFrameAllocator ("primary") or the TwoFrames ("two_frames")
FrameAllocatorAllocateFrame(impl, a) ==
    IF impl = "primary" THEN AllocateFrame(a) ELSE TwoFramesAllocateFrame(a)

\* create_next_table, given the result r of the allocate_frame call it makes
\* for an unused entry: the new table lives in the frame returned
TableCreated(st, key, r) ==
    IF r.ret = NoFrame
    THEN [st EXCEPT !.err = "FrameAllocationFailed",
                    !.a = r.self,
                    !.calls = Append(@, r.ret)]
    ELSE [st EXCEPT !.pt.tables = @ \cup {[key |-> key, frame |-> r.ret]},
                    !.a = r.self,
                    !.calls = Append(@, r.ret)]

\* create_next_table: an unused entry gets a table in a freshly allocated frame
CreateNextTable(st, key, impl) ==
    IF st.err # "Ok" THEN st
    ELSE IF \E t \in st.pt.tables : t.key = key THEN st
    ELSE TableCreated(st, key, FrameAllocatorAllocateFrame(impl, st.a))

\* Mutation: the level 1 entry is overwritten when it is in use.
SetEntry_Overwrite(st, page, frame, flags) ==
    IF st.err # "Ok" THEN st
    ELSE [st EXCEPT !.pt.mappings =
              {m \in @ : m.page # page}
                  \cup {[page |-> page, frame |-> frame, flags |-> flags]}]

\* the level 1 step of map_to: PageAlreadyMapped unless the entry is unused
SetEntry(st, page, frame, flags) ==
    IF st.err # "Ok" THEN st
    ELSE IF \E m \in st.pt.mappings : m.page = page
    THEN [st EXCEPT !.err = "PageAlreadyMapped"]
    ELSE [st EXCEPT !.pt.mappings =
              @ \cup {[page |-> page, frame |-> frame, flags |-> flags]}]

\* Mapper::map_to(page, frame, flags, allocator): walks P4 -> P3 -> P2 -> P1,
\* creating missing tables from `allocator`, then fills the P1 entry unless it
\* is in use.  Returns the error or "Ok", the table, the allocator and the
\* results of the allocate_frame calls it made.
MapTo(pt, page, frame, flags, a, impl) ==
    SetEntry(
        CreateNextTable(
            CreateNextTable(
                CreateNextTable([err |-> "Ok", pt |-> pt, a |-> a, calls |-> << >>],
                                << page[1] >>, impl),
                << page[1], page[2] >>, impl),
            << page[1], page[2], page[3] >>, impl),
        page, frame, flags)

\* Mapper::identity_map(frame, flags, allocator)
IdentityMap(pt, frame, flags, a, impl) ==
    MapTo(pt, PageOfFrame(frame), frame, flags, a, impl)

----------------------------------------------------------------------------
(* Allocator harness: any memory map, any number of allocate_frame calls,  *)
(* then construct_memory_map (which consumes the allocator).               *)

Absent(rs) == Cardinality({i \in 1..Len(rs) : rs[i] = NoFrame})

InitWith(maps) ==
    /\ frame_allocator \in {New(m) : m \in maps}
    /\ two_frames = << >>
    /\ results = << >>
    /\ tf_drawn = << >>
    /\ tf_results = << >>
    /\ regions = << >>
    /\ phase = "allocating"
    /\ pc = "idle"
    /\ page_table = EmptyPageTable
    /\ framebuffer = [addr |-> 0, size |-> 0]
    /\ level_4_frame = NoFrame
    /\ boot_info_frame = NoFrame
    /\ memory_map_frame = NoFrame
    /\ loop_i = 0
    /\ current_frame = NoFrame
    /\ cr3 = "uefi"

Init == InitWith(MemoryMaps)

CallAllocateFrame ==
    /\ pc = "idle"
    /\ phase = "allocating"
    /\ Len(results) < MaxCalls
    /\ Absent(results) < MaxAbsent
    /\ LET r == AllocateFrame(frame_allocator)
       IN  /\ frame_allocator' = r.self
           /\ results' = Append(results, r.ret)
    /\ UNCHANGED <<two_frames, tf_drawn, tf_results, regions, phase>>
    /\ UNCHANGED bootvars

CallConstructMemoryMap ==
    /\ pc = "idle"
    /\ phase = "allocating"
    /\ regions' = ConstructMemoryMap(frame_allocator)
    /\ phase' = "finalized"
    /\ UNCHANGED <<frame_allocator, two_frames, results, tf_drawn, tf_results>>
    /\ UNCHANGED bootvars

Next ==
    \/ CallAllocateFrame
    \/ CallConstructMemoryMap

Spec == Init /\ [][Next]_vars

----------------------------------------------------------------------------
(* Reserved-pair harness: the primary allocator and a TwoFrames built from *)
(* it at any moment; TwoFrames outlives construct_memory_map.              *)

InitTF == InitWith(SeqsUpTo(Descriptors, MaxDescTF) \cup {ExampleMemoryMap})

CallTwoFramesNew ==
    /\ pc = "idle"
    /\ phase = "allocating"
    /\ two_frames = << >>
    /\ tf_drawn = << >>
    /\ Len(results) + 2 <= MaxCalls
    /\ Absent(results) < MaxAbsent
    /\ LET r == TwoFramesNew(frame_allocator)
       IN  /\ frame_allocator' = r.allocator
           /\ results' = results \o r.calls
           /\ tf_drawn' = [k \in 1..Len(r.calls) |-> Len(results) + k]
           /\ two_frames' = r.frames
           /\ phase' = IF r.ok THEN phase ELSE "panicked"
    /\ UNCHANGED <<tf_results, regions>>
    /\ UNCHANGED bootvars

CallTwoFramesAllocateFrame ==
    /\ pc = "idle"
    /\ phase # "panicked"
    /\ two_frames # << >>
    /\ Len(tf_results) < MaxTFCalls
    /\ LET r == TwoFramesAllocateFrame(two_frames)
       IN  /\ two_frames' = r.self
           /\ tf_results' = Append(tf_results, r.ret)
    /\ UNCHANGED <<frame_allocator, results, tf_drawn, regions, phase>>
    /\ UNCHANGED bootvars

NextTF ==
    \/ CallAllocateFrame
    \/ CallTwoFramesNew
    \/ CallTwoFramesAllocateFrame
    \/ CallConstructMemoryMap

SpecTF == InitTF /\ [][NextTF]_vars

----------------------------------------------------------------------------
(* The boot sequence: efi_main and context_switch, one action per step.    *)
(* A failed unwrap/expect panics: pc = "panic" and nothing runs any more.  *)

StackPages == 20

\* Page::containing_address(0xfff00000000) + k
StackPage(k) == << 31, 508, k \div ENTRY_COUNT, k % ENTRY_COUNT >>

\* stack_end = stack_start + 20; its start address is Addresses.stack_top
StackEnd == StackPage(StackPages)

\* the physical frame whose identity page is <<0, p3, p2, p1>>
FrameAt(p3, p2, p1) == ((p3 * ENTRY_COUNT + p2) * ENTRY_COUNT + p1) * PAGE_SIZE

PixelFormats == {"RGB", "BGR", "Bitmask", "BltOnly"}

\* what the firmware can report for the framebuffer: (address, byte length)
Framebuffers ==
    [addr : {FrameAt(0, 384, 0), FrameAt(1, 0, 0) + 2048},
     size : {0, 1, PAGE_SIZE, PAGE_SIZE + 1}]

\* a memory map in which the loaded image lies between two free ranges
LoaderCodeMemoryMap ==
    << [phys_start |-> 0, page_count |-> 28, ty |-> "CONVENTIONAL"],
       [phys_start |-> 28 * PAGE_SIZE, page_count |-> 4, ty |-> "LOADER_CODE"],
       [phys_start |-> 32 * PAGE_SIZE, page_count |-> 8, ty |-> "CONVENTIONAL"] >>

\* memory maps the firmware can hand over at exit_boot_services
BootMemoryMaps ==
    {<< [phys_start |-> 0, page_count |-> n, ty |-> "CONVENTIONAL"] >> : n \in 1..MaxBootPages}
    \cup
    {<< [phys_start |-> 0, page_count |-> 4, ty |-> "LOADER_DATA"],
        [phys_start |-> 4 * PAGE_SIZE, page_count |-> n, ty |-> "CONVENTIONAL"] >> :
        n \in 1..MaxBootPages}
    \cup {LoaderCodeMemoryMap}

\* where the firmware can have loaded the code that executes context_switch
RipFrames ==
    {FrameAt(0, 0, 30), FrameAt(0, 0, 64), FrameAt(0, 24, 0), FrameAt(0, 24, 511),
     FrameAt(1, 5, 511)}

\* the running code does not lie in memory the firmware reports as free
InFreeMemory(addr, memory_map) ==
    \E i \in 1..Len(memory_map) :
        /\ memory_map[i].ty = "CONVENTIONAL"
        /\ memory_map[i].phys_start <= addr
        /\ addr < memory_map[i].phys_start + PAGE_SIZE * memory_map[i].page_count

\* Kernel-loading collaborator (bootloader_lib::load_kernel): maps n pages of
\* the embedded kernel image at the kernel's virtual base, taking page-table
\* frames from the primary allocator.
KernelPage(j) == << 0, 0, 2, j >>

KernelImageFrame(j) == FrameAt(0, 16, j)

RECURSIVE LoadKernelFrom(_, _, _)
LoadKernelFrom(st, j, n) ==
    IF j >= n \/ st.err # "Ok" THEN st
    ELSE LET m == MapTo(st.pt, KernelPage(j), KernelImageFrame(j), {"PRESENT"},
                        st.a, "primary")
         IN  LoadKernelFrom([err |-> m.err, pt |-> m.pt, a |-> m.a,
                             calls |-> st.calls \o m.calls], j + 1, n)

LoadKernel(pt, a, n) ==
    LoadKernelFrom([err |-> "Ok", pt |-> pt, a |-> a, calls |-> << >>], 0, n)

\* Mutation: a failure is ignored and the boot goes on to the next step.
PcAfter_Continue(failed, next) == next

PcAfter(failed, next) == IF failed THEN "panic" ELSE next

PhaseAfter(failed) == IF failed THEN "panicked" ELSE phase

BootInit ==
    /\ frame_allocator = New(<< >>)
    /\ two_frames = << >>
    /\ results = << >>
    /\ tf_drawn = << >>
    /\ tf_results = << >>
    /\ regions = << >>
    /\ phase = "allocating"
    /\ pc = "init_logger"
    /\ page_table = EmptyPageTable
    /\ framebuffer = [addr |-> 0, size |-> 0]
    /\ level_4_frame = NoFrame
    /\ boot_info_frame = NoFrame
    /\ memory_map_frame = NoFrame
    /\ loop_i = 0
    /\ current_frame = NoFrame
    /\ cr3 = "uefi"

\* init_logger (lines 211-240): locate the GOP, reject unsupported pixel formats
InitLogger ==
    /\ pc = "init_logger"
    /\ \E found \in BOOLEAN, format \in PixelFormats, fb \in Framebuffers :
           LET failed == ~found \/ format \in {"Bitmask", "BltOnly"}
           IN  /\ framebuffer' = IF failed THEN framebuffer ELSE fb
               /\ pc' = PcAfter(failed, "allocate_pool")
               /\ phase' = PhaseAfter(failed)
    /\ UNCHANGED <<frame_allocator, two_frames, results, tf_drawn, tf_results, regions>>
    /\ UNCHANGED <<page_table, level_4_frame, boot_info_frame, memory_map_frame,
                   loop_i, current_frame, cr3>>

\* allocate_pool(...)? (lines 41-49): an error status is returned to the firmware
AllocatePool ==
    /\ pc = "allocate_pool"
    /\ \E ok \in BOOLEAN : pc' = IF ok THEN "exit_boot_services" ELSE "returned"
    /\ UNCHANGED allocvars
    /\ UNCHANGED <<page_table, framebuffer, level_4_frame, boot_info_frame,
                   memory_map_frame, loop_i, current_frame, cr3>>

\* exit_boot_services(...).expect_success, UefiFrameAllocator::new (lines 52-56)
ExitBootServices ==
    /\ pc = "exit_boot_services"
    /\ \E ok \in BOOLEAN, m \in BootMemoryMaps :
           /\ frame_allocator' = IF ok THEN New(m) ELSE frame_allocator
           /\ pc' = PcAfter(~ok, "level_4")
           /\ phase' = PhaseAfter(~ok)
    /\ UNCHANGED <<two_frames, results, tf_drawn, tf_results, regions>>
    /\ UNCHANGED <<page_table, framebuffer, level_4_frame, boot_info_frame,
                   memory_map_frame, loop_i, current_frame, cr3>>

\* lines 58-74: a frame for the new level 4 table
AllocateLevel4 ==
    /\ pc = "level_4"
    /\ LET r == AllocateFrame(frame_allocator)
           failed == r.ret = NoFrame
       IN  /\ frame_allocator' = r.self
           /\ results' = Append(results, r.ret)
           /\ level_4_frame' = r.ret
           /\ page_table' = EmptyPageTable
           /\ pc' = PcAfter(failed, "load_kernel")
           /\ phase' = PhaseAfter(failed)
    /\ UNCHANGED <<two_frames, tf_drawn, tf_results, regions>>
    /\ UNCHANGED <<framebuffer, boot_info_frame, memory_map_frame, loop_i,
                   current_frame, cr3>>

\* line 77: bootloader_lib::load_kernel
LoadKernelStep ==
    /\ pc = "load_kernel"
    /\ \E n \in 1..MaxKernelPages :
           LET st == LoadKernel(page_table, frame_allocator, n)
               failed == st.err # "Ok"
           IN  /\ frame_allocator' = st.a
               /\ results' = results \o st.calls
               /\ page_table' = st.pt
               /\ pc' = PcAfter(failed, "stack")
               /\ phase' = PhaseAfter(failed)
    /\ loop_i' = 0
    /\ UNCHANGED <<two_frames, tf_drawn, tf_results, regions>>
    /\ UNCHANGED <<framebuffer, level_4_frame, boot_info_frame, memory_map_frame,
                   current_frame, cr3>>

\* Mutation: the stack pages are mapped without the WRITABLE flag.
MapStackPage_ReadOnly ==
    /\ pc = "stack"
    /\ loop_i < StackPages
    /\ LET r == AllocateFrame(frame_allocator)
           m == IF r.ret = NoFrame
                THEN [err |-> "NoFrame", pt |-> page_table, a |-> r.self, calls |-> << >>]
                ELSE MapTo(page_table, StackPage(loop_i), r.ret,
                           {"PRESENT"}, r.self, "primary")
           failed == m.err # "Ok"
           last == loop_i + 1 = StackPages
       IN  /\ frame_allocator' = m.a
           /\ results' = Append(results, r.ret) \o m.calls
           /\ page_table' = m.pt
           /\ loop_i' = IF failed THEN loop_i ELSE IF last THEN 0 ELSE loop_i + 1
           /\ pc' = PcAfter(failed, IF last THEN "framebuffer" ELSE "stack")
           /\ phase' = PhaseAfter(failed)
    /\ UNCHANGED <<two_frames, tf_drawn, tf_results, regions>>
    /\ UNCHANGED <<framebuffer, level_4_frame, boot_info_frame, memory_map_frame,
                   current_frame, cr3>>

\* lines 83-91: one iteration of the stack loop
MapStackPage ==
    /\ pc = "stack"
    /\ loop_i < StackPages
    /\ LET r == AllocateFrame(frame_allocator)
           m == IF r.ret = NoFrame
                THEN [err |-> "NoFrame", pt |-> page_table, a |-> r.self, calls |-> << >>]
                ELSE MapTo(page_table, StackPage(loop_i), r.ret,
                           {"PRESENT", "WRITABLE"}, r.self, "primary")
           failed == m.err # "Ok"
           last == loop_i + 1 = StackPages
       IN  /\ frame_allocator' = m.a
           /\ results' = Append(results, r.ret) \o m.calls
           /\ page_table' = m.pt
           /\ loop_i' = IF failed THEN loop_i ELSE IF last THEN 0 ELSE loop_i + 1
           /\ pc' = PcAfter(failed, IF last THEN "framebuffer" ELSE "stack")
           /\ phase' = PhaseAfter(failed)
    /\ UNCHANGED <<two_frames, tf_drawn, tf_results, regions>>
    /\ UNCHANGED <<framebuffer, level_4_frame, boot_info_frame, memory_map_frame,
                   current_frame, cr3>>

FramebufferStartFrame == ContainingAddress(framebuffer.addr)

\* Mutation: the end frame is computed from the start address alone.
FramebufferEndFrame_NoSize == ContainingAddress(framebuffer.addr)

FramebufferEndFrame == ContainingAddress(framebuffer.addr + framebuffer.size - 1)

\* lines 94-97: the inclusive frame range of the framebuffer
FramebufferRange ==
    /\ pc = "framebuffer"
    /\ pc' = IF FramebufferStartFrame <= FramebufferEndFrame
             THEN "framebuffer_loop" ELSE "two_frames"
    /\ loop_i' = 0
    /\ UNCHANGED allocvars
    /\ UNCHANGED <<page_table, framebuffer, level_4_frame, boot_info_frame,
                   memory_map_frame, current_frame, cr3>>

\* lines 97-102: one iteration of the framebuffer loop
MapFramebufferFrame ==
    /\ pc = "framebuffer_loop"
    /\ LET frame == FramebufferStartFrame + loop_i * PAGE_SIZE
           m == IdentityMap(page_table, frame, {"PRESENT", "WRITABLE"},
                            frame_allocator, "primary")
           failed == m.err # "Ok"
           last == frame + PAGE_SIZE > FramebufferEndFrame
       IN  /\ frame_allocator' = m.a
           /\ results' = results \o m.calls
           /\ page_table' = m.pt
           /\ loop_i' = IF failed THEN loop_i ELSE IF last THEN 0 ELSE loop_i + 1
           /\ pc' = PcAfter(failed, IF last THEN "two_frames" ELSE "framebuffer_loop")
           /\ phase' = PhaseAfter(failed)
    /\ UNCHANGED <<two_frames, tf_drawn, tf_results, regions>>
    /\ UNCHANGED <<framebuffer, level_4_frame, boot_info_frame, memory_map_frame,
                   current_frame, cr3>>

\* line 105: TwoFrames::new(&mut frame_allocator)
ReserveTwoFrames ==
    /\ pc = "two_frames"
    /\ LET r == TwoFramesNew(frame_allocator)
       IN  /\ frame_allocator' = r.allocator
           /\ results' = results \o r.calls
           /\ tf_drawn' = [k \in 1..Len(r.calls) |-> Len(results) + k]
           /\ two_frames' = r.frames
           /\ pc' = PcAfter(~r.ok, "boot_info_frame")
           /\ phase' = PhaseAfter(~r.ok)
    /\ UNCHANGED <<tf_results, regions>>
    /\ UNCHANGED <<page_table, framebuffer, level_4_frame, boot_info_frame,
                   memory_map_frame, loop_i, current_frame, cr3>>

\* Mutation: no frame is taken for BootInfo before the memory map is built.
AllocateBootInfoFrame_Skipped ==
    /\ pc = "boot_info_frame"
    /\ pc' = "memory_map_frame"
    /\ UNCHANGED allocvars
    /\ UNCHANGED <<page_table, framebuffer, level_4_frame, boot_info_frame,
                   memory_map_frame, loop_i, current_frame, cr3>>

\* line 106: the frame for BootInfo
AllocateBootInfoFrame ==
    /\ pc = "boot_info_frame"
    /\ LET r == AllocateFrame(frame_allocator)
           failed == r.ret = NoFrame
       IN  /\ frame_allocator' = r.self
           /\ results' = Append(results, r.ret)
           /\ boot_info_frame' = r.ret
           /\ pc' = PcAfter(failed, "map_boot_info")
           /\ phase' = PhaseAfter(failed)
    /\ UNCHANGED <<two_frames, tf_drawn, tf_results, regions>>
    /\ UNCHANGED <<page_table, framebuffer, level_4_frame, memory_map_frame,
                   loop_i, current_frame, cr3>>

\* lines 108-116: identity-map the BootInfo frame
MapBootInfoFrame ==
    /\ pc = "map_boot_info"
    /\ LET m == IdentityMap(page_table, boot_info_frame, {"PRESENT", "WRITABLE"},
                            frame_allocator, "primary")
           failed == m.err # "Ok"
       IN  /\ frame_allocator' = m.a
           /\ results' = results \o m.calls
           /\ page_table' = m.pt
           /\ pc' = PcAfter(failed, "memory_map_frame")
           /\ phase' = PhaseAfter(failed)
    /\ UNCHANGED <<two_frames, tf_drawn, tf_results, regions>>
    /\ UNCHANGED <<framebuffer, level_4_frame, boot_info_frame, memory_map_frame,
                   loop_i, current_frame, cr3>>

\* lines 122-130: the frame for the MemoryMap
AllocateMemoryMapFrame ==
    /\ pc = "memory_map_frame"
    /\ LET r == AllocateFrame(frame_allocator)
           failed == r.ret = NoFrame
       IN  /\ frame_allocator' = r.self
           /\ results' = Append(results, r.ret)
           /\ memory_map_frame' = r.ret
           /\ pc' = PcAfter(failed, "map_memory_map")
           /\ phase' = PhaseAfter(failed)
    /\ UNCHANGED <<two_frames, tf_drawn, tf_results, regions>>
    /\ UNCHANGED <<page_table, framebuffer, level_4_frame, boot_info_frame,
                   loop_i, current_frame, cr3>>

\* lines 132-136: identity-map the MemoryMap frame
MapMemoryMapFrame ==
    /\ pc = "map_memory_map"
    /\ LET m == IdentityMap(page_table, memory_map_frame, {"PRESENT", "WRITABLE"},
                            frame_allocator, "primary")
           failed == m.err # "Ok"
       IN  /\ frame_allocator' = m.a
           /\ results' = results \o m.calls
           /\ page_table' = m.pt
           /\ pc' = PcAfter(failed, "construct_memory_map")
           /\ phase' = PhaseAfter(failed)
    /\ UNCHANGED <<two_frames, tf_drawn, tf_results, regions>>
    /\ UNCHANGED <<framebuffer, level_4_frame, boot_info_frame, memory_map_frame,
                   loop_i, current_frame, cr3>>

\* lines 138-140: construct_memory_map consumes the allocator, builder.finalize()
ConstructMemoryMapStep ==
    /\ pc = "construct_memory_map"
    /\ regions' = ConstructMemoryMap(frame_allocator)
    /\ phase' = "finalized"
    /\ pc' = "boot_info"
    /\ UNCHANGED <<frame_allocator, two_frames, results, tf_drawn, tf_results>>
    /\ UNCHANGED <<page_table, framebuffer, level_4_frame, boot_info_frame,
                   memory_map_frame, loop_i, current_frame, cr3>>

\* lines 143-170: write BootInfo, build Addresses, call context_switch
WriteBootInfo ==
    /\ pc = "boot_info"
    /\ pc' = "context_switch"
    /\ UNCHANGED allocvars
    /\ UNCHANGED <<page_table, framebuffer, level_4_frame, boot_info_frame,
                   memory_map_frame, loop_i, current_frame, cr3>>

\* lines 180-181: the frame of the current instruction pointer
ReadRip ==
    /\ pc = "context_switch"
    /\ \E rip \in RipFrames :
           /\ ~InFreeMemory(rip, frame_allocator.original)
           /\ current_frame' = ContainingAddress(rip)
    /\ loop_i' = 0
    /\ pc' = "context_switch_loop"
    /\ UNCHANGED allocvars
    /\ UNCHANGED <<page_table, framebuffer, level_4_frame, boot_info_frame,
                   memory_map_frame, cr3>>

\* Mutation: context_switch is handed the primary allocator.
ContextSwitchIdentityMap_Primary ==
    /\ pc = "context_switch_loop"
    /\ LET frame == current_frame + loop_i * PAGE_SIZE
           m == IdentityMap(page_table, frame, {"PRESENT"}, frame_allocator, "primary")
           failed == m.err # "Ok"
           last == loop_i + 1 = 2
       IN  /\ frame_allocator' = m.a
           /\ results' = results \o m.calls
           /\ page_table' = m.pt
           /\ loop_i' = IF failed THEN loop_i ELSE IF last THEN 0 ELSE loop_i + 1
           /\ pc' = PcAfter(failed, IF last THEN "switch" ELSE "context_switch_loop")
           /\ phase' = PhaseAfter(failed)
    /\ UNCHANGED <<two_frames, tf_drawn, tf_results, regions>>
    /\ UNCHANGED <<framebuffer, level_4_frame, boot_info_frame, memory_map_frame,
                   current_frame, cr3>>

\* lines 182-186: one iteration of range_inclusive(current_frame, current_frame + 1)
ContextSwitchIdentityMap ==
    /\ pc = "context_switch_loop"
    /\ LET frame == current_frame + loop_i * PAGE_SIZE
           m == IdentityMap(page_table, frame, {"PRESENT"}, two_frames,
                            "two_frames")
           failed == m.err # "Ok"
           last == loop_i + 1 = 2
       IN  /\ two_frames' = m.a
           /\ tf_results' = tf_results \o m.calls
           /\ page_table' = m.pt
           /\ loop_i' = IF failed THEN loop_i ELSE IF last THEN 0 ELSE loop_i + 1
           /\ pc' = PcAfter(failed, IF last THEN "switch" ELSE "context_switch_loop")
           /\ phase' = PhaseAfter(failed)
    /\ UNCHANGED <<frame_allocator, results, tf_drawn, regions>>
    /\ UNCHANGED <<framebuffer, level_4_frame, boot_info_frame, memory_map_frame,
                   current_frame, cr3>>

\* lines 189-200: mov cr3; mov rsp; push 0; jmp entry_point
SwitchPageTable ==
    /\ pc = "switch"
    /\ cr3' = level_4_frame
    /\ pc' = "kernel"
    /\ UNCHANGED allocvars
    /\ UNCHANGED <<page_table, framebuffer, level_4_frame, boot_info_frame,
                   memory_map_frame, loop_i, current_frame>>

BootNext ==
    \/ InitLogger
    \/ AllocatePool
    \/ ExitBootServices
    \/ AllocateLevel4
    \/ LoadKernelStep
    \/ MapStackPage
    \/ FramebufferRange
    \/ MapFramebufferFrame
    \/ ReserveTwoFrames
    \/ AllocateBootInfoFrame
    \/ MapBootInfoFrame
    \/ AllocateMemoryMapFrame
    \/ MapMemoryMapFrame
    \/ ConstructMemoryMapStep
    \/ WriteBootInfo
    \/ ReadRip
    \/ ContextSwitchIdentityMap
    \/ SwitchPageTable

BootSpec == BootInit /\ [][BootNext]_vars

----------------------------------------------------------------------------
(* Vocabulary of the properties *)

Original == frame_allocator.original

DescStart(d) == d.phys_start

DescEnd(d) == d.phys_start + PAGE_SIZE * d.page_count

\* the frames (start addresses) lying in the byte range [s, e)
FramesIn(s, e) ==
    {k * PAGE_SIZE : k \in (AlignUp(s, PAGE_SIZE) \div PAGE_SIZE) .. ((e - 1) \div PAGE_SIZE)}

FramesOfDescriptor(d) == FramesIn(DescStart(d), DescEnd(d))

\* the frames the primary allocator has returned so far
Issued == {results[i] : i \in 1..Len(results)} \ {NoFrame}

AddressOrdered(m) ==
    \A i, j \in 1..Len(m) : i < j => m[i].phys_start <= m[j].phys_start

NonOverlapping(m) ==
    \A i, j \in 1..Len(m) :
        i < j => (DescEnd(m[i]) <= DescStart(m[j]) \/ DescEnd(m[j]) <= DescStart(m[i]))

ConventionalIdx(m) == {i \in 1..Len(m) : m[i].ty = "CONVENTIONAL"}

RECURSIVE SumPages(_, _)
SumPages(m, I) ==
    IF I = {} THEN 0
    ELSE LET i == CHOOSE x \in I : TRUE
         IN  m[i].page_count + SumPages(m, I \ {i})

TotalConventionalPages(m) == SumPages(m, ConventionalIdx(m))

\* a MemoryRegion as the builder sees it (without the history field)
AsRegion(r) == [start |-> r.start, end |-> r.end, kind |-> r.kind]

RegionsOfKind(k) == {i \in 1..Len(regions) : regions[i].kind = k}

FramesOfKind(k) == UNION {FramesIn(regions[i].start, regions[i].end) : i \in RegionsOfKind(k)}

\* the regions contributed by the descriptor at position i, in order
RegionsFrom(i) == SelectSeq(regions, LAMBDA r : r.desc = i)

----------------------------------------------------------------------------
(* C1..C8: the frame allocator and the reconstructed memory map *)

\* C1: for any descriptor sequence and any number of allocate_frame calls, the
\* frames returned (absence results ignored) are strictly increasing, hence
\* pairwise distinct.
C1_FramesStrictlyIncreasing ==
    \A i, j \in 1..Len(results) :
        (i < j /\ results[i] # NoFrame /\ results[j] # NoFrame) => results[i] < results[j]

\* frames have been served out of two different descriptors
C1_Witness ==
    /\ Cardinality(Issued) >= 3
    /\ frame_allocator.current_descriptor = 2
    /\ Original[1].ty = "CONVENTIONAL"

\* C2: with descriptors in non-decreasing address order, every returned frame
\* lies inside the page range of some CONVENTIONAL descriptor.
C2_FramesInsideConventional ==
    (AddressOrdered(Original) /\ NonOverlapping(Original)) =>
        \A f \in Issued :
            \E i \in ConventionalIdx(Original) : f \in FramesOfDescriptor(Original[i])

\* C3: with descriptors in non-decreasing address order and a fresh allocator,
\* the n-th call returns absence iff n exceeds the total CONVENTIONAL page count.
C3_AbsenceIffExceedsTotal ==
    (AddressOrdered(Original) /\ NonOverlapping(Original)) =>
        \A n \in 1..Len(results) :
            (results[n] = NoFrame) <=> (n > TotalConventionalPages(Original))

ExampleFrames ==
    [n \in 1..12 |-> IF n <= 10 THEN (n - 1) * PAGE_SIZE ELSE (15 + n - 11) * PAGE_SIZE]

ExampleRegions ==
    << [start |-> 0,              end |-> 10 * PAGE_SIZE, kind |-> "Bootloader"],
       [start |-> 10 * PAGE_SIZE, end |-> 15 * PAGE_SIZE, kind |-> "Reserved"],
       [start |-> 15 * PAGE_SIZE, end |-> 17 * PAGE_SIZE, kind |-> "Bootloader"],
       [start |-> 17 * PAGE_SIZE, end |-> 35 * PAGE_SIZE, kind |-> "Usable"] >>

\* C4: on the worked example, 12 calls return 0x0000..0x9000, then 0xF000 and
\* 0x10000, and construct_memory_map then yields the four listed regions.
C4_WorkedExample ==
    (Original = ExampleMemoryMap /\ Len(results) = 12) =>
        /\ results = ExampleFrames
        /\ phase = "finalized" =>
               [i \in 1..Len(regions) |-> AsRegion(regions[i])] = ExampleRegions

\* C5: after construct_memory_map, the frames covered by Bootloader regions are
\* exactly the frames allocate_frame returned.
C5_BootloaderEqualsIssued ==
    phase = "finalized" => FramesOfKind("Bootloader") = Issued

\* C6: for pairwise non-overlapping descriptors, the regions cover exactly the
\* CONVENTIONAL and RESERVED descriptor ranges and do not overlap each other.
C6_RegionsPartitionInput ==
    (phase = "finalized" /\ NonOverlapping(Original)) =>
        /\ \A i \in 1..Len(regions) :
               regions[i].start % PAGE_SIZE = 0 /\ regions[i].end % PAGE_SIZE = 0
        /\ UNION {FramesIn(regions[i].start, regions[i].end) : i \in 1..Len(regions)}
             = UNION {FramesOfDescriptor(Original[i]) :
                         i \in {x \in 1..Len(Original) :
                                   Original[x].ty \in {"CONVENTIONAL", "RESERVED"}}}
        /\ \A i, j \in 1..Len(regions) :
               i < j => (regions[i].end <= regions[j].start
                         \/ regions[j].end <= regions[i].start)

\* a finalized map holding a split descriptor and a reserved one
C6_Witness ==
    /\ phase = "finalized"
    /\ NonOverlapping(Original)
    /\ RegionsOfKind("Reserved") # {}
    /\ \E i \in 1..Len(Original) : Len(RegionsFrom(i)) = 2

\* C7: a CONVENTIONAL descriptor whose frames were all issued yields one
\* Bootloader region over its full range; one with no frame issued yields one
\* Usable region over its full range; one partly issued yields Bootloader then
\* Usable, meeting at the final cursor.
C7_ClassifiedByIssuedFrames ==
    phase = "finalized" =>
        \A i \in ConventionalIdx(Original) :
            LET d == Original[i]
                F == FramesOfDescriptor(d)
                R == [k \in 1..Len(RegionsFrom(i)) |-> AsRegion(RegionsFrom(i)[k])]
                Full(k) == [start |-> DescStart(d), end |-> DescEnd(d), kind |-> k]
            IN  /\ F \subseteq Issued => R = << Full("Bootloader") >>
                /\ F \cap Issued = {} => R = << Full("Usable") >>
                /\ (~(F \subseteq Issued) /\ F \cap Issued # {}) =>
                       R = << [start |-> DescStart(d), end |-> frame_allocator.next_frame,
                               kind |-> "Bootloader"],
                              [start |-> frame_allocator.next_frame, end |-> DescEnd(d),
                               kind |-> "Usable"] >>

\* a finalized map with one descriptor fully issued and another partly issued
C7_Witness ==
    /\ phase = "finalized"
    /\ \E i, j \in ConventionalIdx(Original) :
           /\ FramesOfDescriptor(Original[i]) \subseteq Issued
           /\ ~(FramesOfDescriptor(Original[j]) \subseteq Issued)
           /\ FramesOfDescriptor(Original[j]) \cap Issued # {}

----------------------------------------------------------------------------
(* C9: the reserved pair *)

\* C9: TwoFrames::new draws exactly two frames from the primary allocator; the
\* first two TwoFrames::allocate_frame calls return them in drawing order, they
\* are distinct and differ from every frame the primary allocator issued before
\* or issues after the reservation; the third and later calls return absence.
C9_ReservedPair ==
    two_frames # << >> =>
        /\ Len(tf_drawn) = 2
        /\ tf_drawn[2] = tf_drawn[1] + 1
        /\ results[tf_drawn[1]] # NoFrame
        /\ results[tf_drawn[2]] # NoFrame
        /\ results[tf_drawn[1]] # results[tf_drawn[2]]
        /\ \A n \in 1..Len(tf_results) :
               tf_results[n] = IF n <= 2 THEN results[tf_drawn[n]] ELSE NoFrame
        /\ \A j \in 1..Len(results) :
               (j < tf_drawn[1] \/ j > tf_drawn[2]) =>
                   results[j] \notin {results[tf_drawn[1]], results[tf_drawn[2]]}

\* both reserved frames handed out, a third call answered with absence, and the
\* primary allocator issued frames before and after the reservation
C9_Witness ==
    /\ two_frames # << >>
    /\ Len(tf_results) = 3
    /\ tf_results[3] = NoFrame
    /\ tf_drawn[1] > 1
    /\ Len(results) > tf_drawn[2]
    /\ results[Len(results)] # NoFrame

----------------------------------------------------------------------------
(* C10: the boot sequence *)

SwitchPcs == {"context_switch", "context_switch_loop", "switch"}

\* the two frames TwoFrames::new drew from the primary allocator
ReservedFrames == {results[tf_drawn[k]] : k \in 1..Len(tf_drawn)} \ {NoFrame}

\* C10: in the boot sequence every allocate_frame call on the primary allocator
\* (those inside map_to/identity_map included) precedes construct_memory_map;
\* once the map is finalized the primary allocator never changes, and every
\* frame requested during context_switch is served by the reserved pair.
C10_PrimaryFrozenAfterFinalize ==
    [][ /\ phase = "finalized" =>
               (frame_allocator' = frame_allocator /\ results' = results)
        /\ pc \in SwitchPcs =>
               /\ phase = "finalized"
               /\ frame_allocator' = frame_allocator
               /\ results' = results
               /\ {t.frame : t \in page_table'.tables \ page_table.tables}
                    = {tf_results'[k] : k \in (Len(tf_results) + 1)..Len(tf_results')}
                        \ {NoFrame}
               /\ {t.frame : t \in page_table'.tables \ page_table.tables}
                    \subseteq ReservedFrames
      ]_vars

\* the switch is reached after the reserved pair served both of its frames, and
\* the primary allocator served page-table frames inside map_to before that
C10_Witness ==
    /\ pc = "switch"
    /\ phase = "finalized"
    /\ Len(tf_results) = 2
    /\ \A k \in 1..2 : tf_results[k] # NoFrame
    /\ \E t \in page_table.tables : t.frame \in Issued \ ReservedFrames

----------------------------------------------------------------------------
(* C11..C18: the address space built by efi_main and context_switch *)

\* the frames that intersect the byte range [s, e)
FramesIntersecting(s, e) ==
    IF e <= s THEN {}
    ELSE {k * PAGE_SIZE : k \in (s \div PAGE_SIZE)..((e - 1) \div PAGE_SIZE)}

FramebufferFrames ==
    FramesIntersecting(framebuffer.addr, framebuffer.addr + framebuffer.size)

Mapped(page) == \E m \in page_table.mappings : m.page = page

IdentityMapped(frame) ==
    \E m \in page_table.mappings : m.page = PageOfFrame(frame) /\ m.frame = frame

\* C11: at the step where context_switch loads the new page-table base, the
\* new table already maps each of the 20 stack pages and identity-maps every
\* frame of the framebuffer, the boot-info frame and the memory-map frame.
C11_MappedBeforeSwitch ==
    pc = "switch" =>
        /\ \A k \in 0..(StackPages - 1) : Mapped(StackPage(k))
        /\ \A f \in FramebufferFrames : IdentityMapped(f)
        /\ boot_info_frame # NoFrame /\ IdentityMapped(boot_info_frame)
        /\ memory_map_frame # NoFrame /\ IdentityMapped(memory_map_frame)

\* the switch is about to happen with a framebuffer that spans two frames
C11_Witness ==
    /\ pc = "switch"
    /\ cr3 = "uefi"
    /\ Cardinality(FramebufferFrames) = 2
    /\ Cardinality(page_table.mappings) >= StackPages + 2 + 2

\* the steps that call map_to or identity_map, and the page each one maps
MapPcs ==
    {"stack", "framebuffer_loop", "map_boot_info", "map_memory_map",
     "context_switch_loop"}

MapTarget ==
    CASE pc = "stack" -> StackPage(loop_i)
      [] pc = "framebuffer_loop" ->
             PageOfFrame(FramebufferStartFrame + loop_i * PAGE_SIZE)
      [] pc = "map_boot_info" -> PageOfFrame(boot_info_frame)
      [] pc = "map_memory_map" -> PageOfFrame(memory_map_frame)
      [] pc = "context_switch_loop" ->
             PageOfFrame(current_frame + loop_i * PAGE_SIZE)
      [] OTHER -> << >>

\* C12: a map call for a virtual page that is already mapped reports the
\* mapping conflict (the caller's unwrap then panics) and leaves the first
\* mapping, target frame and flags, as it was.
C12_SecondMapConflicts ==
    [][ (pc \in MapPcs /\ Mapped(MapTarget)) =>
            /\ pc' = "panic"
            /\ phase' = "panicked"
            /\ page_table'.mappings = page_table.mappings
      ]_vars

\* context_switch asked to identity-map a frame that efi_main had already
\* identity-mapped writable: the boot panicked and the first mapping stands
C12_Witness ==
    /\ pc = "panic"
    /\ current_frame # NoFrame
    /\ \E m \in page_table.mappings :
           /\ m.page = PageOfFrame(current_frame + loop_i * PAGE_SIZE)
           /\ m.frame \in {boot_info_frame, memory_map_frame}
           /\ m.flags = {"PRESENT", "WRITABLE"}

\* the boot has stopped: a panic, or efi_main returned an error status
Halted == {"panic", "returned"}

\* the results of the allocate_frame calls a step adds to a history
NewResults(old, new) == {new[k] : k \in (Len(old) + 1)..Len(new)}

\* C13: every failure in the boot sequence (no frame left at any allocation
\* site, a failed map_to/identity_map, a firmware service that fails, an
\* unsupported pixel format) halts the boot at the failing step: no step runs
\* after it, and the context switch is reached only when every earlier
\* allocation and mapping succeeded.
C13_FailureHalts ==
    [][ /\ pc \notin Halted
        /\ NoFrame \in NewResults(results, results') => pc' = "panic"
        /\ NoFrame \in NewResults(tf_results, tf_results') => pc' = "panic"
        /\ phase' = "panicked" <=> pc' = "panic"
        /\ pc' \in SwitchPcs \cup {"kernel"} =>
               /\ \A k \in 1..Len(results') : results'[k] # NoFrame
               /\ pc' = "kernel" => \A k \in 1..Len(tf_results') : tf_results'[k] # NoFrame
               /\ \A f \in {level_4_frame', boot_info_frame', memory_map_frame'} :
                      f # NoFrame
               /\ \A k \in 0..(StackPages - 1) :
                      \E m \in page_table'.mappings : m.page = StackPage(k)
      ]_vars

\* the primary allocator ran out in the middle of the stack loop
C13_Witness ==
    /\ pc = "panic"
    /\ results # << >>
    /\ results[Len(results)] = NoFrame
    /\ loop_i > 0 /\ loop_i < StackPages
    /\ boot_info_frame = NoFrame
    /\ cr3 = "uefi"

----------------------------------------------------------------------------
(* C14: issued frames against the reconstructed map *)

\* the frames still held by the reserved pair
HeldFrames == {two_frames[k] : k \in 1..Len(two_frames)} \ {NoFrame}

\* C14: after any sequence of allocate_frame calls followed by
\* construct_memory_map, no Usable region contains a frame the primary
\* allocator ever issued; that includes the two frames of the reserved pair,
\* whether they were handed out afterwards or are still held.
C14_UsableDisjointFromIssued ==
    phase = "finalized" =>
        /\ FramesOfKind("Usable") \cap Issued = {}
        /\ FramesOfKind("Usable") \cap ReservedFrames = {}
        /\ FramesOfKind("Usable") \cap HeldFrames = {}
        /\ \A k \in 1..Len(tf_results) : tf_results[k] \notin FramesOfKind("Usable")
        /\ ReservedFrames \subseteq Issued

\* the map was built while the pair still holds one of its two frames, and a
\* Usable region begins right behind the last issued frame
C14_Witness ==
    /\ phase = "finalized"
    /\ Cardinality(ReservedFrames) = 2
    /\ Cardinality(HeldFrames) = 1
    /\ Len(tf_results) = 1
    /\ \E i \in RegionsOfKind("Usable") :
           /\ regions[i].start = frame_allocator.next_frame
           /\ regions[i].start < regions[i].end

----------------------------------------------------------------------------
(* C15..C18: context_switch and the steps of efi_main *)

\* C15: the two identity_map calls of context_switch together request at most
\* two frames from the reserved pair, wherever the code frame lies and whatever
\* efi_main has put into the new table, so the pair never answers with absence.
C15_PairSuffices ==
    /\ Len(tf_results) <= 2
    /\ \A k \in 1..Len(tf_results) : tf_results[k] # NoFrame

\* the position of a frame in the history of the primary allocator's results
IssuedAt(frame) == CHOOSE k \in 1..Len(results) : results[k] = frame

\* C16 as stated: the BootInfo frame is allocated and identity-mapped only
\* after the memory map has been finalized and the memory-map frame has been
\* identity-mapped; no BootInfo-frame allocation precedes construct_memory_map.
C16_BootInfoFrameAfterFinalize ==
    boot_info_frame # NoFrame =>
        /\ regions # << >>
        /\ memory_map_frame # NoFrame
        /\ IdentityMapped(memory_map_frame)

\* C16 (amended): the BootInfo frame is allocated from the primary allocator
\* and identity-mapped writable before the memory-map frame is allocated and
\* before construct_memory_map runs; only the BootInfo value is written after
\* the memory map has been finalized and its frame identity-mapped.
C16_BootInfoFrameBeforeFinalize ==
    /\ (pc \in {"memory_map_frame", "map_memory_map", "construct_memory_map"}
            \/ phase = "finalized") =>
           /\ boot_info_frame \in Issued
           /\ \E m \in page_table.mappings :
                  /\ m.page = PageOfFrame(boot_info_frame)
                  /\ m.frame = boot_info_frame
                  /\ m.flags = {"PRESENT", "WRITABLE"}
    /\ memory_map_frame # NoFrame =>
           /\ boot_info_frame \in Issued
           /\ IssuedAt(boot_info_frame) < IssuedAt(memory_map_frame)
    /\ boot_info_frame = NoFrame => (regions = << >> /\ memory_map_frame = NoFrame)
    /\ pc \in {"boot_info"} \cup SwitchPcs \cup {"kernel"} =>
           /\ regions # << >>
           /\ IdentityMapped(memory_map_frame)

\* the BootInfo value is about to be written: its frame was issued before the
\* memory-map frame and the finalized map records it as Bootloader memory
C16_Witness ==
    /\ pc = "boot_info"
    /\ phase = "finalized"
    /\ boot_info_frame # NoFrame
    /\ boot_info_frame < memory_map_frame
    /\ IdentityMapped(boot_info_frame)
    /\ boot_info_frame \in FramesOfKind("Bootloader")

\* the mappings of the stack pages, and the frames behind them
StackMappings ==
    {m \in page_table.mappings : \E k \in 0..(StackPages - 1) : m.page = StackPage(k)}

StackFrames == {m.frame : m \in StackMappings}

\* C17: after the stack loop the 20 consecutive pages from 0xfff00000000 are
\* mapped present and writable to 20 pairwise distinct frames freshly issued
\* by the primary allocator; none of them is a page-table frame or the target
\* of another mapping, and the stack top is the stack base plus 20 pages.
C17_StackMapped ==
    pc = "framebuffer" =>
        /\ \A k \in 0..(StackPages - 1) : Mapped(StackPage(k))
        /\ \A m \in StackMappings : m.flags = {"PRESENT", "WRITABLE"}
        /\ Cardinality(StackMappings) = StackPages
        /\ Cardinality(StackFrames) = StackPages
        /\ StackFrames \subseteq Issued
        /\ level_4_frame \notin StackFrames
        /\ \A t \in page_table.tables : t.frame \notin StackFrames
        /\ \A m \in page_table.mappings \ StackMappings : m.frame \notin StackFrames
        /\ StackEnd[1] = StackPage(0)[1] /\ StackEnd[2] = StackPage(0)[2]
        /\ StackEnd[3] * ENTRY_COUNT + StackEnd[4]
              = StackPage(0)[3] * ENTRY_COUNT + StackPage(0)[4] + StackPages
        /\ ~Mapped(StackEnd)

\* the loop has just finished: 20 stack frames, interleaved in the order of
\* issue with the page-table frames that map_to took for the first stack page
C17_Witness ==
    /\ pc = "framebuffer"
    /\ Cardinality(StackFrames) = StackPages
    /\ \E t \in page_table.tables : \E f, g \in StackFrames : f < t.frame /\ t.frame < g

\* the mappings made by the framebuffer loop: at its end, everything in the
\* table that is neither a stack page nor a page of the kernel
FramebufferMappings ==
    {m \in page_table.mappings \ StackMappings :
        \A j \in 0..(MaxKernelPages - 1) : m.page # KernelPage(j)}

\* C18: for every framebuffer start address and byte length, length 0 and
\* unaligned starts included, the framebuffer loop identity-maps, writable,
\* exactly the 4096-byte frames that intersect [start, start + length) and no
\* other frame.
C18_FramebufferExactlyMapped ==
    pc = "two_frames" =>
        /\ {m.frame : m \in FramebufferMappings} = FramebufferFrames
        /\ \A m \in FramebufferMappings :
               /\ m.page = PageOfFrame(m.frame)
               /\ m.flags = {"PRESENT", "WRITABLE"}

----------------------------------------------------------------------------
(* C19, C20: order of the regions, and the cursor of the allocator *)

\* the descriptors construct_memory_map represents in its output
RepresentedIdx(m) == {i \in 1..Len(m) : m[i].ty \in {"CONVENTIONAL", "RESERVED"}}

\* the descriptors whose range came out as two regions
SplitIdx == {i \in 1..Len(Original) : Len(RegionsFrom(i)) = 2}

\* C19: construct_memory_map appends the regions in the order of the original
\* descriptors and never merges them: each CONVENTIONAL or RESERVED descriptor
\* contributes its one or two regions at its own position, every other type
\* contributes nothing, and when the descriptors do not overlap at most one of
\* them is split, so there is at most one region more than there are
\* CONVENTIONAL and RESERVED descriptors.
C19_RegionsInDescriptorOrder ==
    phase = "finalized" =>
        /\ \A k \in 1..Len(regions) : regions[k].desc \in RepresentedIdx(Original)
        /\ \A k \in 1..(Len(regions) - 1) : regions[k].desc <= regions[k + 1].desc
        /\ \A i \in RepresentedIdx(Original) :
               LET rs == RegionsFrom(i)
               IN  /\ Len(rs) \in {1, 2}
                   /\ Original[i].ty = "RESERVED" => Len(rs) = 1
                   /\ rs[1].start = DescStart(Original[i])
                   /\ rs[Len(rs)].end = DescEnd(Original[i])
                   /\ Len(rs) = 2 => rs[1].end = rs[2].start
        /\ \A i \in (1..Len(Original)) \ RepresentedIdx(Original) :
               RegionsFrom(i) = << >>
        /\ NonOverlapping(Original) =>
               /\ Cardinality(SplitIdx) <= 1
               /\ Len(regions) <= Cardinality(RepresentedIdx(Original)) + 1

\* two adjoining descriptors came out as three regions: the first whole, the
\* second split at the cursor, and the two adjoining Bootloader regions were
\* not merged
C19_Witness ==
    /\ phase = "finalized"
    /\ NonOverlapping(Original)
    /\ Len(Original) = 2
    /\ Len(regions) = 3
    /\ regions[1].kind = regions[2].kind
    /\ regions[1].end = regions[2].start
    /\ regions[1].desc = 1 /\ regions[2].desc = 2 /\ regions[3].desc = 2

\* C20: an allocate_frame call on the primary allocator that returns absence
\* leaves the cursor next_frame where it was; once a call has returned
\* absence every later call returns absence; a call that returns a frame
\* advances the cursor by exactly one frame.
C20_CursorMoves ==
    [][ Len(results') = Len(results) + 1 =>
            LET ret == results'[Len(results')]
            IN  /\ ret = NoFrame =>
                       frame_allocator'.next_frame = frame_allocator.next_frame
                /\ ret # NoFrame =>
                       frame_allocator'.next_frame
                           = frame_allocator.next_frame + PAGE_SIZE
                /\ (results # << >> /\ results[Len(results)] = NoFrame) =>
                       ret = NoFrame
      ]_vars

\* frames were issued, then two calls in a row found nothing, and the cursor
\* stands right behind the last frame issued
C20_Witness ==
    /\ Len(results) >= 3
    /\ results[Len(results)] = NoFrame
    /\ results[Len(results) - 1] = NoFrame
    /\ results[Len(results) - 2] # NoFrame
    /\ frame_allocator.next_frame = results[Len(results) - 2] + PAGE_SIZE

====
